---------------------------- MODULE Spec2Model ----------------------------
(***************************************************************************)
(* A model of simplecol: the alignment detector (simplecol/helpers.py),    *)
(* Column, Model, Screen and Table (simplecol/core.py).                    *)
(*                                                                         *)
(* A Python str is a sequence of one-character strings: "ab" is            *)
(* <<"a", "b">>.  An optional value is a sequence of length 0 (None) or 1: *)
(* heading None is <<>>, heading "" is << <<>> >>.  An Alignment is one of *)
(* the strings "LEFT", "RIGHT", "CENTER"; a missing Alignment is "None".   *)
(***************************************************************************)
EXTENDS Integers, Sequences, FiniteSets, TLC

VARIABLES
    op,        \* the operation that produced the current state
    rows,      \* from_rows: the rows argument
    headers,   \* from_rows: the headers argument
    model,     \* the current Model
    src,       \* with_aligns: the Model it was called on
    aligns,    \* with_aligns: the aligns argument
    items,     \* detect_auto_align: the items argument
    column,    \* the Column whose __len__ / template is called
    override,  \* Column.template: the align argument
    text,      \* the string formatted with the template
    renderer,  \* the Screen or Table that rendered the model
    accessed,  \* the list the last access of Model.columns returned
    first,     \* the Model and the list of the first access of Model.columns
    values,    \* columnize: the values argument
    opts,      \* columnize: the keyword arguments
    prepared,  \* what prepare or get_unique returned
    args,      \* the command line of cli.run, parsed
    stdin,     \* the lines cli.run reads
    stderr,    \* what cli.run printed to stderr
    status,    \* the exit code cli.run returned
    ncols,     \* parse_alignments: the ncols argument
    layout,    \* shrinkToWidth: the widths, spacer length and target given
    widths,    \* shrinkToWidth: the current column widths
    overflow,  \* shrinkToWidth: the current overflow
    result     \* what the last operation returned

vars == <<op, rows, headers, model, src, aligns, items, column, override, text,
          renderer, accessed, first, values, opts, prepared, args, stdin, stderr,
          status, ncols, layout, widths, overflow, result>>

---------------------------------------------------------------------------
(* Bounds of the model *)

MaxRows == 3       \* rows handed to from_rows (the header row included)
MaxRowLen == 2     \* cells in one row
MaxItems == 4      \* items handed to detect_auto_align
MaxData == 2       \* cells in the data of a Column
MaxModelCols == 2  \* entries in the data of a Model
MaxWidth == 4      \* the explicit width of a Column
MaxGrown == 3      \* cells in a data list that client code appends to
MaxLineWidth == 3  \* the small target widths given to columnize
MaxNcols == 3      \* the ncols argument of parse_alignments
MaxValues == 3     \* the values of a list given to prepare
MaxShrinkCols == 3   \* the columns of a layout given to shrinkToWidth
MaxShrinkWidth == 3  \* the width of one such column
MaxTarget == 4       \* its target line width

---------------------------------------------------------------------------
(* Values *)

None == <<>>
Some(x) == <<x>>
NoAlign == "None"
LEFT == "LEFT"
RIGHT == "RIGHT"
CENTER == "CENTER"
Alignment == {LEFT, RIGHT, CENTER}
OptAlignment == Alignment \cup {NoAlign}

Max(a, b) == IF a >= b THEN a ELSE b
MaxOf(S) == IF S = {} THEN 0 ELSE CHOOSE m \in S : \A n \in S : n <= m
SeqsUpTo(S, n) == UNION {[1..k -> S] : k \in 0..n}

Digits == {"0", "1", "2", "3", "4", "5", "6", "7", "8", "9"}
Whitespace == {" ", "\t", "\n", "\r"}
NL == <<"\n">>

---------------------------------------------------------------------------
(* Python's str methods and the float() grammar *)

IsSpace(s) == Len(s) > 0 /\ \A i \in 1..Len(s) : s[i] \in Whitespace

RECURSIVE RStrip(_)
RStrip(s) ==
    IF Len(s) > 0 /\ s[Len(s)] \in Whitespace
    THEN RStrip(SubSeq(s, 1, Len(s) - 1))
    ELSE s

RECURSIVE LStrip(_)
LStrip(s) == IF Len(s) > 0 /\ s[1] \in Whitespace THEN LStrip(Tail(s)) ELSE s

Strip(s) == LStrip(RStrip(s))

Lower(c) ==
    CASE c = "A" -> "a" [] c = "B" -> "b" [] c = "C" -> "c"
      [] c = "D" -> "d" [] c = "E" -> "e" [] c = "F" -> "f"
      [] c = "G" -> "g" [] c = "H" -> "h" [] c = "I" -> "i"
      [] c = "J" -> "j" [] c = "K" -> "k" [] c = "L" -> "l"
      [] c = "M" -> "m" [] c = "N" -> "n" [] c = "O" -> "o"
      [] c = "P" -> "p" [] c = "Q" -> "q" [] c = "R" -> "r"
      [] c = "S" -> "s" [] c = "T" -> "t" [] c = "U" -> "u"
      [] c = "V" -> "v" [] c = "W" -> "w" [] c = "X" -> "x"
      [] c = "Y" -> "y" [] c = "Z" -> "z"
      [] OTHER -> c

LowerStr(s) == [i \in 1..Len(s) |-> Lower(s[i])]

\* decimal digits, single underscores allowed between two digits
IsDigitPart(s) ==
    /\ Len(s) > 0
    /\ \A i \in 1..Len(s) :
          \/ s[i] \in Digits
          \/ /\ s[i] = "_"
             /\ i > 1
             /\ i < Len(s)
             /\ s[i - 1] \in Digits
             /\ s[i + 1] \in Digits

\* digits, digits., .digits or digits.digits
IsMantissa(s) ==
    \/ IsDigitPart(s)
    \/ \E k \in 1..Len(s) :
          /\ s[k] = "."
          /\ LET whole == SubSeq(s, 1, k - 1)
                 frac == SubSeq(s, k + 1, Len(s))
             IN /\ Len(whole) + Len(frac) > 0
                /\ Len(whole) = 0 \/ IsDigitPart(whole)
                /\ Len(frac) = 0 \/ IsDigitPart(frac)

Unsigned(s) == IF Len(s) > 0 /\ s[1] \in {"+", "-"} THEN Tail(s) ELSE s

IsDecimalFloat(s) ==
    \/ IsMantissa(s)
    \/ \E k \in 1..Len(s) :
          /\ s[k] \in {"e", "E"}
          /\ IsMantissa(SubSeq(s, 1, k - 1))
          /\ IsDigitPart(Unsigned(SubSeq(s, k + 1, Len(s))))

\* float(value) does not raise ValueError
FloatParses(value) ==
    LET u == Unsigned(Strip(value))
    IN \/ LowerStr(u) \in {<<"i", "n", "f">>, <<"n", "a", "n">>,
                          <<"i", "n", "f", "i", "n", "i", "t", "y">>}
       \/ IsDecimalFloat(u)

---------------------------------------------------------------------------
(* simplecol/helpers.py *)

CenterMinItems == 3
CenterMinLen == 3
CenterMaxLen == 8

is_numeric_value(value) ==
    IF Len(value) = 0 \/ IsSpace(value) THEN FALSE ELSE FloatParses(value)

numeric_count(str_items) ==
    Cardinality({i \in 1..Len(str_items) : is_numeric_value(str_items[i])})

is_majority_at_least_half(n, total) == 2 * n >= total

is_majority(n, total) == 2 * n > total

is_center_no_min_len(str_items) ==
    LET lengths == [i \in 1..Len(str_items) |-> Len(str_items[i])]
    IN /\ Len(lengths) > 0
       /\ Len(str_items) >= CenterMinItems
       /\ numeric_count(str_items) = 0
       /\ Cardinality({lengths[i] : i \in 1..Len(lengths)}) = 1
       /\ lengths[1] <= CenterMaxLen

is_center(str_items) ==
    LET lengths == [i \in 1..Len(str_items) |-> Len(str_items[i])]
    IN /\ Len(lengths) > 0
       /\ Len(str_items) >= CenterMinItems
       /\ numeric_count(str_items) = 0
       /\ Cardinality({lengths[i] : i \in 1..Len(lengths)}) = 1
       /\ CenterMinLen <= lengths[1]
       /\ lengths[1] <= CenterMaxLen

detect_auto_align(its) ==
    IF Len(its) = 0 THEN "LEFT"
    ELSE IF is_majority(numeric_count(its), Len(its)) THEN "RIGHT"
    ELSE IF is_center(its) THEN "CENTER"
    ELSE "LEFT"

---------------------------------------------------------------------------
(* simplecol/core.py: Column *)

Column(data, heading, width, align) ==
    [kind |-> "Column", data |-> data, heading |-> heading, width |-> width,
     align |-> align]

\* an entry of Model.data that is a plain sequence of strings, not a Column
RawSeq(data) ==
    [kind |-> "seq", data |-> data, heading |-> None, width |-> None,
     align |-> NoAlign]

data_width(col) == MaxOf({Len(col.data[i]) : i \in 1..Len(col.data)})


\* len(self.heading) if self.heading else 0
heading_width(col) ==
    IF col.heading # None /\ Len(col.heading[1]) > 0 THEN Len(col.heading[1]) ELSE 0

Column_len_at_least_content(col) ==
    IF col.width # None
    THEN Max(col.width[1], Max(data_width(col), heading_width(col)))
    ELSE Max(data_width(col), heading_width(col))

Column_len(col) ==
    IF col.width # None THEN col.width[1]
    ELSE Max(data_width(col), heading_width(col))

effective_align_own_first(col, align) ==
    IF col.align # NoAlign THEN col.align
    ELSE IF align # NoAlign THEN align
    ELSE LEFT

\* align or self.align or Alignment.LEFT
effective_align(col, align) ==
    IF align # NoAlign THEN align
    ELSE IF col.align # NoAlign THEN col.align
    ELSE LEFT

\* the format template "{:<w}", "{:>w}" or "{:^w}" as its fill direction and width
Column_template(col, align) ==
    LET e == effective_align(col, align)
        width == Column_len(col)
    IN IF e = LEFT THEN [dir |-> "<", width |-> width]
       ELSE IF e = RIGHT THEN [dir |-> ">", width |-> width]
       ELSE IF e = CENTER THEN [dir |-> "^", width |-> width]
       ELSE [dir |-> "<", width |-> width]

Spaces(n) == [i \in 1..n |-> " "]

\* template.format(value) for a str value: pad to the width, never truncate
\* (width 0 gives the format spec "<0", which str.format reads as no width)
Format(template, value) ==
    LET pad == Max(template.width - Len(value), 0)
        lpad == pad \div 2
    IN IF template.dir = "<" THEN value \o Spaces(pad)
       ELSE IF template.dir = ">" THEN Spaces(pad) \o value
       ELSE Spaces(lpad) \o value \o Spaces(pad - lpad)

---------------------------------------------------------------------------
(* simplecol/core.py: Model *)

Model(data, headings, align) == [data |-> data, headings |-> headings, align |-> align]

heading_for_off_by_one(m, i) ==
    IF m.headings # None /\ Len(m.headings[1]) > 0 /\ i < Len(m.headings[1])
    THEN Some(m.headings[1][i])
    ELSE None

heading_for_cycling(m, i) ==
    IF m.headings # None /\ Len(m.headings[1]) > 0
    THEN Some(m.headings[1][((i - 1) % Len(m.headings[1])) + 1])
    ELSE None

\* the heading Model.columns gives the raw sequence at (1-based) position i
heading_for(m, i) ==
    IF m.headings # None /\ Len(m.headings[1]) > 0 /\ i <= Len(m.headings[1])
    THEN Some(m.headings[1][i])
    ELSE None

\* the Model's headings and default alignment applied to stored Columns too
Model_columns_overriding(m) ==
    [i \in 1..Len(m.data) |->
        IF m.data[i].kind = "Column"
        THEN [m.data[i] EXCEPT
                 !.heading = IF heading_for(m, i) # None THEN heading_for(m, i)
                             ELSE @,
                 !.align = IF m.align # NoAlign THEN m.align ELSE @]
        ELSE Column(m.data[i].data, heading_for(m, i), None,
                    IF m.align = NoAlign THEN detect_auto_align(m.data[i].data)
                    ELSE m.align)]

\* Model.columns: a stored Column as it is, a raw sequence as a new Column
Model_columns(m) ==
    [i \in 1..Len(m.data) |->
        IF m.data[i].kind = "Column" THEN m.data[i]
        ELSE Column(m.data[i].data, heading_for(m, i), None,
                    IF m.align = NoAlign THEN detect_auto_align(m.data[i].data)
                    ELSE m.align)]

cell_or_empty_off_by_one(row, col_idx) ==
    IF col_idx < Len(row) THEN row[col_idx] ELSE <<>>

\* row[col_idx] if col_idx < len(row) else "", with col_idx counted from 1
cell_or_empty(row, col_idx) == IF col_idx <= Len(row) THEN row[col_idx] ELSE <<>>

empty_columns_forgotten(headings) == <<>>

\* [[] for _ in headings]
empty_columns(headings) == [i \in 1..Len(headings) |-> RawSeq(<<>>)]

Model_from_rows(rws, hdrs, align) ==
    IF Len(rws) = 0 THEN Model(<<>>, None, align)
    ELSE LET headings == IF hdrs THEN Some(rws[1]) ELSE None
             rows_list == IF hdrs THEN Tail(rws) ELSE rws
         IN IF Len(rows_list) = 0
            THEN IF headings # None /\ Len(headings[1]) > 0
                 THEN Model(empty_columns(headings[1]), headings, align)
                 ELSE Model(<<>>, headings, align)
            ELSE LET max_cols == MaxOf({Len(rows_list[r]) : r \in 1..Len(rows_list)})
                 IN Model([c \in 1..max_cols |->
                              RawSeq([r \in 1..Len(rows_list) |->
                                         cell_or_empty(rows_list[r], c)])],
                          headings, align)

Model_from_columns(columns, headings, align) == Model(columns, headings, align)

new_align_ignoring_list(als, i, col) == col.align

\* aligns[i] if i < len(aligns) else col.align, with i counted from 1
new_align(als, i, col) == IF i <= Len(als) THEN als[i] ELSE col.align

new_column_without_width(col, align) == Column(col.data, col.heading, None, align)

\* Column(data=col.data, heading=col.heading, width=col.width, align=new_align)
new_column(col, align) == Column(col.data, col.heading, col.width, align)

Model_with_aligns(m, als) ==
    LET columns == Model_columns(m)
    IN Model([i \in 1..Len(columns) |->
                 new_column(columns[i], new_align(als, i, columns[i]))],
             m.headings, m.align)

---------------------------------------------------------------------------
(* simplecol/core.py: Screen and Table *)

RECURSIVE Join(_, _)
Join(sep, parts) ==
    IF Len(parts) = 0 THEN <<>>
    ELSE IF Len(parts) = 1 THEN parts[1]
    ELSE parts[1] \o sep \o Join(sep, Tail(parts))

max_rows(columns) == MaxOf({Len(columns[c].data) : c \in 1..Len(columns)})

data_line_unstripped(columns, spacer, row_idx) ==
    Join(spacer,
        [c \in 1..Len(columns) |->
            Format(Column_template(columns[c], NoAlign),
                   IF row_idx <= Len(columns[c].data)
                   THEN columns[c].data[row_idx] ELSE <<>>)])

\* a row that leaves out the columns that have no cell in it
data_line_skipping_short(columns, spacer, row_idx) ==
    LET present == SelectSeq([c \in 1..Len(columns) |-> c],
                             LAMBDA c : row_idx <= Len(columns[c].data))
    IN RStrip(Join(spacer,
           [k \in 1..Len(present) |->
               Format(Column_template(columns[present[k]], NoAlign),
                      columns[present[k]].data[row_idx])]))

\* one data row: every column's cell (or "") through the column's template
data_line(columns, spacer, row_idx) ==
    RStrip(Join(spacer,
        [c \in 1..Len(columns) |->
            Format(Column_template(columns[c], NoAlign),
                   IF row_idx <= Len(columns[c].data)
                   THEN columns[c].data[row_idx] ELSE <<>>)]))

data_lines(columns, spacer) ==
    [r \in 1..max_rows(columns) |-> data_line(columns, spacer, r)]

Screen_str(m, spacer) ==
    LET columns == Model_columns(m)
    IN IF Len(columns) = 0 THEN <<>>
       ELSE Join(NL, data_lines(columns, spacer))

\* any heading that is set counts, the empty string too
has_headers_any_heading(columns) ==
    \E c \in 1..Len(columns) : columns[c].heading # None

has_headers(columns) ==
    \E c \in 1..Len(columns) :
        columns[c].heading # None /\ Len(columns[c].heading[1]) > 0

header_line(columns, spacer) ==
    RStrip(Join(spacer,
        [c \in 1..Len(columns) |->
            Format(Column_template(columns[c], NoAlign),
                   IF columns[c].heading # None THEN columns[c].heading[1] ELSE <<>>)]))

sep_line_heading_sized(columns, spacer) ==
    RStrip(Join(spacer,
        [c \in 1..Len(columns) |->
            [k \in 1..heading_width(columns[c]) |-> "-"]]))

sep_line(columns, spacer) ==
    RStrip(Join(spacer,
        [c \in 1..Len(columns) |-> [k \in 1..Column_len(columns[c]) |-> "-"]]))

Table_str(m, spacer, show_sep) ==
    LET columns == Model_columns(m)
    IN IF Len(columns) = 0 THEN <<>>
       ELSE Join(NL,
                (IF has_headers(columns)
                 THEN <<header_line(columns, spacer)>>
                      \o (IF show_sep THEN <<sep_line(columns, spacer)>> ELSE <<>>)
                 ELSE <<>>)
                \o data_lines(columns, spacer))

---------------------------------------------------------------------------
(* Inputs *)

Str1 == <<"1">>
Str22 == <<"2", "2">>
StrA == <<"a">>
StrAb == <<"a", "b">>
StrAbc == <<"a", "b", "c">>
StrXyz == <<"x", "y", "z">>
StrHdr == <<"h", "d", "r">>

\* "", " ", "7", "1e3", "-1.5", "nan", "ab", "abc", "12a", 8 and 9 letters
DetectItems ==
    {<<>>, <<" ">>, <<"7">>, <<"1", "e", "3">>, <<"-", "1", ".", "5">>,
     <<"n", "a", "n">>, StrAb, StrAbc, <<"1", "2", "a">>,
     <<"a", "b", "c", "d", "e", "f", "g", "h">>,
     <<"a", "b", "c", "d", "e", "f", "g", "h", "i">>}

RowCells == {<<>>, Str1}
RowSet == SeqsUpTo(RowCells, MaxRowLen)
FromRowsAligns == {NoAlign, CENTER}

ColumnCells == {<<>>, StrA, StrAbc}
ColumnHeadings == {None, Some(<<>>), Some(StrAb), Some(<<"a", "b", "c", "d", "e">>)}
ColumnWidths == {None} \cup {Some(w) : w \in 0..MaxWidth}
ColumnSet ==
    {Column(d, h, w, a) : d \in SeqsUpTo(ColumnCells, MaxData), h \in ColumnHeadings,
                          w \in ColumnWidths, a \in OptAlignment}
Texts == {<<>>, StrA, StrAb, <<"a", "b", "c", "d", "e", "f">>}

Entries ==
    {RawSeq(<<Str1, Str22>>),
     RawSeq(<<StrAb>>),
     RawSeq(<<>>),
     Column(<<Str1, Str22>>, None, None, NoAlign),
     Column(<<StrAb, StrA>>, Some(StrHdr), Some(4), CENTER)}
ModelHeadings == {None, Some(<<StrXyz>>)}
ModelAligns == {NoAlign, CENTER}
AlignArgs == {NoAlign, RIGHT, CENTER}
Spacers == {<<" ", " ">>, <<"|">>}

NoModel == Model(<<>>, None, NoAlign)
NoColumn == Column(<<>>, None, None, NoAlign)
NoRenderer == [kind |-> "none", spacer |-> <<>>, show_sep |-> FALSE]
NoValues == [kind |-> "list", keys |-> <<>>, vals |-> <<>>]
NoOpts ==
    [width |-> None, vertical |-> TRUE, side |-> "left", unique |-> FALSE,
     sort |-> FALSE]
NoArgs ==
    [files |-> <<>>, columns |-> FALSE, align |-> <<"l", "e", "f", "t">>,
     header |-> FALSE, no_sep |-> FALSE, spacer |-> <<" ", " ">>]
NoLayout == [widths |-> <<>>, spacer |-> 0, target |-> 0]

rowsVars == <<rows, headers>>
modelVars == <<model, src, aligns, renderer>>
columnVars == <<column, override, text>>
accessVars == <<accessed, first>>
legacyVars == <<values, opts>>
prepVars == <<prepared>>
cliVars == <<args, stdin, stderr, status, ncols>>
shrinkVars == <<layout, widths, overflow>>
otherVars == <<prepVars, cliVars, shrinkVars>>

RowsIdle == rows = <<>> /\ headers = FALSE
ModelIdle == model = NoModel /\ src = None /\ aligns = <<>> /\ renderer = NoRenderer
DetectIdle == items = <<>>
ColumnIdle == column = NoColumn /\ override = NoAlign /\ text = <<>>
AccessIdle == accessed = <<>> /\ first = None
LegacyIdle == values = NoValues /\ opts = NoOpts
PrepIdle == prepared = NoValues
CliIdle == args = NoArgs /\ stdin = <<>> /\ stderr = <<>> /\ status = None
           /\ ncols = 0
ShrinkIdle == layout = NoLayout /\ widths = <<>> /\ overflow = 0
OtherIdle == PrepIdle /\ CliIdle /\ ShrinkIdle

---------------------------------------------------------------------------
(* The alignment detector applied to a sequence of items *)

InitDetect ==
    /\ op = "init"
    /\ items \in SeqsUpTo(DetectItems, MaxItems)
    /\ result = <<>>
    /\ RowsIdle /\ ModelIdle /\ ColumnIdle /\ AccessIdle /\ LegacyIdle /\ OtherIdle

DetectAutoAlign ==
    /\ op = "init"
    /\ op' = "detect_auto_align"
    /\ result' = detect_auto_align(items)
    /\ UNCHANGED <<rowsVars, modelVars, columnVars, accessVars, legacyVars,
                   otherVars, items>>

NextDetect == DetectAutoAlign

SpecDetect == InitDetect /\ [][NextDetect]_vars

---------------------------------------------------------------------------
(* len(column) and column.template(override).format(text) *)

InitColumn ==
    /\ op = "init"
    /\ column \in ColumnSet
    /\ override \in OptAlignment
    /\ text \in Texts
    /\ result = <<>>
    /\ RowsIdle /\ ModelIdle /\ DetectIdle /\ AccessIdle /\ LegacyIdle /\ OtherIdle

ColumnLen ==
    /\ op = "init"
    /\ op' = "len"
    /\ result' = Column_len(column)
    /\ UNCHANGED <<rowsVars, modelVars, columnVars, accessVars, legacyVars,
                   otherVars, items>>

ColumnTemplate ==
    /\ op = "init"
    /\ op' = "template"
    /\ result' = Format(Column_template(column, override), text)
    /\ UNCHANGED <<rowsVars, modelVars, columnVars, accessVars, legacyVars,
                   otherVars, items>>

NextColumn == ColumnLen \/ ColumnTemplate

SpecColumn == InitColumn /\ [][NextColumn]_vars

---------------------------------------------------------------------------
(* Model.from_rows applied to a list of rows *)

InitRows ==
    /\ op = "init"
    /\ rows \in SeqsUpTo(RowSet, MaxRows)
    /\ headers \in BOOLEAN
    /\ result = <<>>
    /\ ModelIdle /\ DetectIdle /\ ColumnIdle /\ AccessIdle /\ LegacyIdle /\ OtherIdle

FromRows ==
    /\ op = "init"
    /\ op' = "from_rows"
    /\ \E a \in FromRowsAligns : model' = Model_from_rows(rows, headers, a)
    /\ UNCHANGED <<rowsVars, src, aligns, renderer, columnVars, accessVars,
                   legacyVars, otherVars,
                 items, result>>

NextRows == FromRows

SpecRows == InitRows /\ [][NextRows]_vars

---------------------------------------------------------------------------
(* A Model is built from columns, re-aligned and rendered *)

Init ==
    /\ op = "init"
    /\ result = <<>>
    /\ RowsIdle /\ ModelIdle /\ DetectIdle /\ ColumnIdle /\ AccessIdle
    /\ LegacyIdle /\ OtherIdle

FromColumns ==
    /\ op = "init"
    /\ op' = "from_columns"
    /\ \E cols \in SeqsUpTo(Entries, MaxModelCols), h \in ModelHeadings,
          a \in ModelAligns :
          model' = Model_from_columns(cols, h, a)
    /\ UNCHANGED <<rowsVars, src, aligns, renderer, columnVars, accessVars,
                   legacyVars, otherVars,
                 items, result>>

WithAligns ==
    /\ op = "from_columns"
    /\ op' = "with_aligns"
    /\ \E als \in SeqsUpTo(AlignArgs, MaxModelCols + 1) :
          /\ aligns' = als
          /\ model' = Model_with_aligns(model, als)
    /\ src' = Some(model)
    /\ UNCHANGED <<rowsVars, renderer, columnVars, accessVars, legacyVars, otherVars,
                   items, result>>

RenderScreen ==
    /\ op \in {"from_columns", "with_aligns"}
    /\ op' = "render"
    /\ \E sp \in Spacers :
          /\ renderer' = [kind |-> "Screen", spacer |-> sp, show_sep |-> FALSE]
          /\ result' = Screen_str(model, sp)
    /\ UNCHANGED <<rowsVars, model, src, aligns, columnVars, accessVars, legacyVars,
                   otherVars, items>>

RenderTable ==
    /\ op \in {"from_columns", "with_aligns"}
    /\ op' = "render"
    /\ \E sp \in Spacers, sep \in BOOLEAN :
          /\ renderer' = [kind |-> "Table", spacer |-> sp, show_sep |-> sep]
          /\ result' = Table_str(model, sp, sep)
    /\ UNCHANGED <<rowsVars, model, src, aligns, columnVars, accessVars, legacyVars,
                   otherVars, items>>

Next == FromColumns \/ WithAligns \/ RenderScreen \/ RenderTable

Spec == Init /\ [][Next]_vars

---------------------------------------------------------------------------
(* Claims about Model.from_rows, checked under SpecRows *)

\* rows without the header row
DataRows == IF headers /\ Len(rows) > 0 THEN Tail(rows) ELSE rows

IsLongest(n, rws) ==
    /\ \E i \in 1..Len(rws) : Len(rws[i]) = n
    /\ \A i \in 1..Len(rws) : Len(rws[i]) <= n

\* column j of cols is the padded j-th column of the rows rws
IsTransposeOf(cols, rws) ==
    \A j \in 1..Len(cols) :
        /\ Len(cols[j].data) = Len(rws)
        /\ \A i \in 1..Len(rws) :
              cols[j].data[i] = IF j <= Len(rws[i]) THEN rws[i][j] ELSE <<>>

\* C1: for a non-empty list of data rows (the header row removed when
\* headers is true) from_rows gives as many columns as the longest data row
\* has cells, every column has one entry per data row, and entry i of column j
\* is rows[i][j] when the row has a cell j and the empty string otherwise.
C1_FromRowsTransposes ==
    (op = "from_rows" /\ Len(DataRows) > 0) =>
        LET cols == Model_columns(model)
        IN /\ IsLongest(Len(cols), DataRows)
           /\ IsTransposeOf(cols, DataRows)

\* a header row and two data rows of different lengths were transposed
C1_Witness ==
    /\ op = "from_rows"
    /\ headers
    /\ Len(rows) = 3
    /\ Len(rows[2]) = 1
    /\ Len(rows[3]) = 2
    /\ Len(Model_columns(model)) = 2
    /\ Model_columns(model)[2].data = <<<<>>, rows[3][2]>>

ColumnHeadingsOf(cols) == [j \in 1..Len(cols) |-> cols[j].heading]

\* C2 as stated: with headers=True the headings of the resulting columns are
\* rows[0], same length and same order, also when rows[0] is longer or shorter
\* than the longest data row, and the data columns are the padded transpose of
\* rows[1:].
C2_HeadingsEqualFirstRow ==
    (op = "from_rows" /\ headers /\ Len(rows) > 0) =>
        LET cols == Model_columns(model)
        IN /\ ColumnHeadingsOf(cols) = [j \in 1..Len(rows[1]) |-> Some(rows[1][j])]
           /\ IsTransposeOf(cols, DataRows)

\* C2 amended: with headers=True the data columns are the padded transpose of
\* rows[1:], their number is the length of the longest data row (the length of
\* rows[0] when there is no data row), and column j has heading rows[0][j]
\* when rows[0] has an entry j and no heading otherwise; entries of rows[0]
\* beyond the column count are dropped.
C2_HeadingsFollowColumns ==
    (op = "from_rows" /\ headers /\ Len(rows) > 0) =>
        LET cols == Model_columns(model)
        IN /\ IF Len(DataRows) = 0 THEN Len(cols) = Len(rows[1])
              ELSE IsLongest(Len(cols), DataRows)
           /\ IsTransposeOf(cols, DataRows)
           /\ \A j \in 1..Len(cols) :
                 cols[j].heading =
                     IF j <= Len(rows[1]) THEN Some(rows[1][j]) ELSE None

\* the header row is shorter than the longest data row: the last column has
\* no heading
C2_Witness ==
    /\ op = "from_rows"
    /\ headers
    /\ Len(rows) = 3
    /\ Len(rows[1]) = 1
    /\ Len(Model_columns(model)) = 2
    /\ Model_columns(model)[1].heading = Some(rows[1][1])
    /\ Model_columns(model)[2].heading = None

\* C3: from_rows of no rows gives a Model with zero columns; from_rows of one
\* single row with headers=True gives one column per header entry, each with
\* empty data and the header entry as its heading.
C3_EmptyAndHeadersOnly ==
    /\ (op = "from_rows" /\ Len(rows) = 0) => Len(Model_columns(model)) = 0
    /\ (op = "from_rows" /\ Len(rows) = 1 /\ headers) =>
           LET cols == Model_columns(model)
           IN /\ Len(cols) = Len(rows[1])
              /\ \A j \in 1..Len(cols) :
                    /\ cols[j].data = <<>>
                    /\ cols[j].heading = Some(rows[1][j])

\* a header row of two entries, one of them empty, and no data row
C3_Witness ==
    /\ op = "from_rows"
    /\ headers
    /\ rows = <<<<Str1, <<>>>>>>
    /\ Len(Model_columns(model)) = 2

---------------------------------------------------------------------------
(* Claims about the alignment detector, checked under SpecDetect *)

IsBlank(s) == \A k \in 1..Len(s) : s[k] \in Whitespace

NumericItems == {i \in 1..Len(items) : is_numeric_value(items[i])}

\* C4: the detector returns RIGHT exactly for the non-empty sequences in which
\* strictly more than half of the items are numeric (not for the empty sequence,
\* not for exactly half), and an empty or whitespace-only item is never counted
\* as numeric.
C4_RightIffNumericMajority ==
    op = "detect_auto_align" =>
        /\ result = RIGHT <=>
               (Len(items) > 0 /\ 2 * Cardinality(NumericItems) > Len(items))
        /\ \A i \in 1..Len(items) : IsBlank(items[i]) => i \notin NumericItems

\* three of four items are numeric, the fourth is blank, and the result is RIGHT
C4_Witness ==
    /\ op = "detect_auto_align"
    /\ Len(items) = 4
    /\ Cardinality(NumericItems) = 3
    /\ \E i \in 1..Len(items) : IsBlank(items[i])
    /\ result = RIGHT

\* at least 3 items, all of one length between 3 and 8, none numeric
IsUniformText(its) ==
    /\ Len(its) >= 3
    /\ \A i \in 1..Len(its) : Len(its[i]) = Len(its[1])
    /\ 3 <= Len(its[1])
    /\ Len(its[1]) <= 8
    /\ \A i \in 1..Len(its) : ~is_numeric_value(its[i])

\* C5: the detector returns CENTER for every sequence of at least 3 items of
\* one length L, 3 <= L <= 8, none numeric, and for no other sequence; replacing
\* one item of such a sequence by an item of another length gives a result
\* other than CENTER; whenever the result is neither RIGHT nor CENTER, and for
\* the empty sequence, it is LEFT.
C5_CenterIffUniformText ==
    op = "detect_auto_align" =>
        /\ result = CENTER <=> IsUniformText(items)
        /\ result = CENTER =>
               \A i \in 1..Len(items) : \A c \in DetectItems :
                   Len(c) # Len(items[i]) =>
                       detect_auto_align([items EXCEPT ![i] = c]) # CENTER
        /\ result \in {LEFT, RIGHT, CENTER}
        /\ Len(items) = 0 => result = LEFT

\* three items of length 8, none numeric, are centred
C5_Witness ==
    /\ op = "detect_auto_align"
    /\ Len(items) = 3
    /\ \A i \in 1..3 : Len(items[i]) = 8
    /\ result = CENTER

---------------------------------------------------------------------------
(* Claims about Column, checked under SpecColumn *)

ContentWidths ==
    {0} \cup {Len(column.data[i]) : i \in 1..Len(column.data)}
        \cup (IF column.heading = None THEN {} ELSE {Len(column.heading[1])})

\* C6: len(column) is the explicit width whenever one is set, also when it is
\* smaller than the content; otherwise it is the largest of 0, the length of
\* every cell and the length of the heading (a missing heading counts 0), so
\* a column without data and heading has width 0.
C6_ColumnWidth ==
    op = "len" =>
        IF column.width # None THEN result = column.width[1]
        ELSE /\ result \in ContentWidths
             /\ \A w \in ContentWidths : w <= result

\* an explicit width smaller than a cell of the column
C6_Witness ==
    /\ op = "len"
    /\ column.width = Some(1)
    /\ \E i \in 1..Len(column.data) : Len(column.data[i]) = 3
    /\ result = 1

AllSpaces(s) == \A k \in 1..Len(s) : s[k] = " "

\* the alignment the template is to use: the argument, else the column's, else LEFT
ExpectedAlign ==
    IF override # NoAlign THEN override
    ELSE IF column.align # NoAlign THEN column.align
    ELSE LEFT

\* C7: the template of a column pads a string to len(column) characters and
\* leaves a longer string as it is; LEFT puts the padding on the right, RIGHT
\* on the left, CENTER on both sides with the odd space on the right; the
\* alignment used is the override argument if given, else the column's own,
\* else LEFT.
C7_TemplatePads ==
    op = "template" =>
        LET w == Column_len(column)
            n == Len(text)
            pad == Len(result) - n
            lpad == IF ExpectedAlign = LEFT THEN 0
                    ELSE IF ExpectedAlign = RIGHT THEN pad
                    ELSE pad \div 2
        IN /\ Len(result) = (IF n > w THEN n ELSE w)
           /\ SubSeq(result, lpad + 1, lpad + n) = text
           /\ AllSpaces(SubSeq(result, 1, lpad))
           /\ AllSpaces(SubSeq(result, lpad + n + 1, Len(result)))
           /\ ExpectedAlign = CENTER =>
                  (pad - lpad = lpad \/ pad - lpad = lpad + 1)

\* an override of CENTER on a RIGHT column, with an odd number of fill characters
C7_Witness ==
    /\ op = "template"
    /\ override = CENTER
    /\ column.align = RIGHT
    /\ Len(text) = 1
    /\ Len(result) = 4
    /\ result[2] = text[1]

---------------------------------------------------------------------------
(* Claims about Model.with_aligns and rendering, checked under Spec *)

\* C8: with_aligns(aligns) returns a Model with as many columns as the source;
\* column i has alignment aligns[i] when aligns has an entry i and otherwise
\* the alignment of column i of the source Model's columns; entries of aligns
\* beyond the column count are ignored.
C8_WithAlignsSetsAlignments ==
    src # None =>
        LET old == Model_columns(src[1])
            new == Model_columns(model)
        IN /\ Len(new) = Len(old)
           /\ Len(new) = Len(src[1].data)
           /\ \A i \in 1..Len(new) :
                 new[i].align = IF i <= Len(aligns) THEN aligns[i] ELSE old[i].align

\* a list shorter than the column count: the first column is set to the entry,
\* the second, a raw sequence in the source, keeps its detected alignment
C8_Witness ==
    /\ op = "with_aligns"
    /\ Len(aligns) = 1
    /\ Len(model.data) = 2
    /\ src[1].data[2].kind = "seq"
    /\ src[1].align = NoAlign
    /\ Model_columns(model)[1].align = aligns[1]
    /\ Model_columns(model)[2].align = RIGHT

\* C9: with_aligns changes nothing but the alignment: every column of the new
\* Model has the data, heading and width of the same column of the source, and
\* the new Model has the source's headings and default alignment.
C9_WithAlignsKeepsTheRest ==
    src # None =>
        LET old == Model_columns(src[1])
            new == Model_columns(model)
        IN /\ Len(new) = Len(old)
           /\ \A i \in 1..Len(new) :
                 /\ new[i].data = old[i].data
                 /\ new[i].heading = old[i].heading
                 /\ new[i].width = old[i].width
           /\ model.headings = src[1].headings
           /\ model.align = src[1].align

\* a column with data, a heading and an explicit width got another alignment
C9_Witness ==
    /\ op = "with_aligns"
    /\ Len(aligns) > 0
    /\ Len(model.data) > 0
    /\ src[1].data[1].width = Some(4)
    /\ src[1].data[1].heading = Some(StrHdr)
    /\ model.data[1].align = RIGHT
    /\ model.data[1].width = Some(4)
    /\ src[1].headings # None

\* the Model with every column that with_aligns gave an unset entry aligned as
\* the detector says for its data
WithAutoResolved(m) ==
    [m EXCEPT !.data =
        [i \in 1..Len(m.data) |->
            IF i <= Len(aligns) /\ aligns[i] = NoAlign
            THEN [m.data[i] EXCEPT !.align = detect_auto_align(m.data[i].data)]
            ELSE m.data[i]]]

\* C10: a column given an unset entry by with_aligns is rendered, by Screen and
\* by Table, with the alignment the detector computes from its data.
C10_UnsetEntryIsDetected ==
    (op = "render" /\ src # None) =>
        result = IF renderer.kind = "Screen"
                 THEN Screen_str(WithAutoResolved(model), renderer.spacer)
                 ELSE Table_str(WithAutoResolved(model), renderer.spacer,
                                renderer.show_sep)

---------------------------------------------------------------------------
(* Object identity in Model.columns, and simplecol/__init__.py: Frame *)

is_stored_object(entry) == entry.kind = "Column"

shares_data_always(entry) == TRUE

\* whether the data list of the Column that Model.columns returns for an entry
\* is the list object the Model stores: a stored Column is returned as it is,
\* a raw sequence is copied by list(col)
shares_data(entry) == entry.kind = "Column"

\* Model.columns, each Column with what it shares with the Model
Model_columns_objects(m) ==
    [i \in 1..Len(m.data) |->
        [column |-> Model_columns(m)[i],
         same |-> is_stored_object(m.data[i]),
         shares |-> shares_data(m.data[i])]]

\* Frame.align: anything but "right" becomes LEFT
side_to_align(side) == IF side = "right" THEN RIGHT ELSE LEFT

\* the columns after "for col in columns: col.align = align"
aligned_objects(m, align) ==
    [i \in 1..Len(m.data) |->
        [Model_columns_objects(m)[i] EXCEPT !.column.align = align]]

\* what the Model stores after the loop: an assignment to a stored Column
\* object is an assignment to the Model's entry
Frame_align(m, side) ==
    [m EXCEPT !.data =
        [i \in 1..Len(m.data) |->
            IF is_stored_object(m.data[i])
            THEN [m.data[i] EXCEPT !.align = side_to_align(side)]
            ELSE m.data[i]]]

Frame_str(m) == Screen_str(m, <<" ", " ">>)

---------------------------------------------------------------------------
(* Model.columns is accessed, the returned Columns are changed by the caller
   or by Frame.align *)

AccessModels ==
    {Model(e, h, a) : e \in SeqsUpTo(Entries, MaxModelCols), h \in ModelHeadings,
                      a \in ModelAligns}
AppendValues == {StrA}
Sides == {"left", "right", "center"}

InitAccess ==
    /\ op = "init"
    /\ model \in AccessModels
    /\ src = None /\ aligns = <<>> /\ renderer = NoRenderer
    /\ accessed = <<>>
    /\ first = None
    /\ result = <<>>
    /\ RowsIdle /\ DetectIdle /\ ColumnIdle /\ LegacyIdle /\ OtherIdle

Columns ==
    /\ op' = "columns"
    /\ accessed' = Model_columns_objects(model)
    /\ first' = IF first = None
                THEN Some([model |-> model, columns |-> Model_columns(model)])
                ELSE first
    /\ UNCHANGED <<rowsVars, modelVars, columnVars, legacyVars, otherVars, items,
                   result>>

\* the caller appends a value to the data list of a Column it was given
AppendData ==
    /\ op' = "append"
    /\ \E j \in 1..Len(accessed), v \in AppendValues :
          /\ Len(accessed[j].column.data) < MaxGrown
          /\ accessed' = [accessed EXCEPT ![j].column.data = Append(@, v)]
          /\ model' = IF accessed[j].shares
                      THEN [model EXCEPT !.data[j].data = Append(@, v)]
                      ELSE model
    /\ UNCHANGED <<rowsVars, src, aligns, renderer, columnVars, legacyVars,
                   otherVars, items,
                   first, result>>

FrameAlign ==
    /\ op' = "align"
    /\ \E side \in Sides :
          /\ accessed' = aligned_objects(model, side_to_align(side))
          /\ model' = Frame_align(model, side)
    /\ UNCHANGED <<rowsVars, src, aligns, renderer, columnVars, legacyVars,
                   otherVars, items,
                   first, result>>

NextAccess == Columns \/ AppendData \/ FrameAlign

SpecAccess == InitAccess /\ [][NextAccess]_vars


---------------------------------------------------------------------------
(* Claims about the stored Columns and about Model.columns *)

\* C11: no materialization and no Frame.align call changes a Column object
\* that the Model stores: each stored Column keeps its data, heading, width
\* and align across such a step.
C11_StoredColumnsKept ==
    [][op' \in {"columns", "align"} =>
        /\ Len(model'.data) = Len(model.data)
        /\ \A i \in 1..Len(model.data) :
              model.data[i].kind = "Column" => model'.data[i] = model.data[i]]_vars

\* the raw sequences a Model stores
RawIndexes(m) == {i \in 1..Len(m.data) : m.data[i].kind = "seq"}

\* C12: materializing is deterministic and leaves the stored raw sequences
\* alone: from the first access on, every stored raw sequence is the one the
\* Model had then, also after the data list of a materialized Column has been
\* appended to, and every later access gives, for each raw sequence, a Column
\* equal in data, heading, width and align to the one of the first access.
C12_MaterializingKeepsRawSequences ==
    first # None =>
        /\ Len(model.data) = Len(first[1].model.data)
        /\ \A i \in RawIndexes(first[1].model) :
              /\ model.data[i] = first[1].model.data[i]
              /\ op = "columns" => accessed[i].column = first[1].columns[i]

\* a Column materialized from a raw sequence has been appended to, and the
\* Model still stores the sequence it had
C12_Witness ==
    /\ op = "append"
    /\ first # None
    /\ \E i \in RawIndexes(model) :
          /\ ~accessed[i].same
          /\ Len(accessed[i].column.data) = Len(model.data[i].data) + 1


---------------------------------------------------------------------------
(* A Screen or a Table is printed, and printed again *)

\* the Model after __str__: the renderers assign no field of it
Model_after_str_drained(m) ==
    [m EXCEPT !.data =
        [i \in 1..Len(m.data) |->
            IF m.data[i].kind = "seq" THEN RawSeq(<<>>) ELSE m.data[i]]]

Model_after_str(m) == m

StrName == <<"N", "a", "m", "e">>
StrAge == <<"A", "g", "e">>
StrAlice == <<"A", "l", "i", "c", "e">>
StrBob == <<"B", "o", "b">>
Str25 == <<"2", "5">>
Str30 == <<"3", "0">>
ScenarioRows == <<<<StrName, StrAge>>, <<StrAlice, Str25>>, <<StrBob, Str30>>>>

\* cells are text without line breaks; one cell ends with a blank, one is
\* longer than the explicit width of its Column
RenderEntries ==
    {RawSeq(<<StrAb, Str1>>),
     RawSeq(<<StrA, <<>>>>),
     RawSeq(<<>>),
     RawSeq(<<<<"a", " ">>>>),
     Column(<<Str1, Str22>>, None, None, NoAlign),
     Column(<<StrAb>>, Some(StrHdr), Some(4), CENTER),
     Column(<<StrA>>, Some(<<>>), None, RIGHT),
     Column(<<StrAb, StrA>>, None, Some(1), NoAlign)}
RenderHeadings ==
    {None, Some(<<>>), Some(<<StrXyz>>), Some(<<StrXyz, <<>>>>),
     Some(<<StrXyz, <<>>, StrA>>)}
RenderModels ==
    {Model(e, h, a) : e \in SeqsUpTo(RenderEntries, MaxModelCols),
                      h \in RenderHeadings, a \in {NoAlign, RIGHT}}
    \cup {Model_from_rows(ScenarioRows, TRUE, NoAlign)}
RenderSpacers == {<<" ", " ">>, <<"|", " ">>}
Renderers ==
    {[kind |-> "Screen", spacer |-> sp, show_sep |-> FALSE] : sp \in RenderSpacers}
    \cup {[kind |-> "Table", spacer |-> sp, show_sep |-> sep] :
            sp \in RenderSpacers, sep \in BOOLEAN}

InitRender ==
    /\ op = "init"
    /\ model \in RenderModels
    /\ renderer \in Renderers
    /\ src = None /\ aligns = <<>>
    /\ result = <<>>
    /\ RowsIdle /\ DetectIdle /\ ColumnIdle /\ AccessIdle /\ LegacyIdle /\ OtherIdle

ScreenStr ==
    /\ renderer.kind = "Screen"
    /\ op \in {"init", "str"}
    /\ op' = IF op = "init" THEN "str" ELSE "str_again"
    /\ accessed' = Model_columns_objects(model)
    /\ result' = Screen_str(model, renderer.spacer)
    /\ model' = Model_after_str(model)
    /\ UNCHANGED <<rowsVars, src, aligns, renderer, columnVars, legacyVars,
                   otherVars, items, first>>

TableStr ==
    /\ renderer.kind = "Table"
    /\ op \in {"init", "str"}
    /\ op' = IF op = "init" THEN "str" ELSE "str_again"
    /\ accessed' = Model_columns_objects(model)
    /\ result' = Table_str(model, renderer.spacer, renderer.show_sep)
    /\ model' = Model_after_str(model)
    /\ UNCHANGED <<rowsVars, src, aligns, renderer, columnVars, legacyVars,
                   otherVars, items, first>>

NextRender == ScreenStr \/ TableStr

SpecRender == InitRender /\ [][NextRender]_vars

---------------------------------------------------------------------------
(* Claims about headings and about the rendered text, checked under SpecRender *)

Rendered == op \in {"str", "str_again"}

\* C13: the columns of a Model are as many as its data entries whatever the
\* length of the headings list; the column of a raw sequence at position i has
\* heading headings[i] when the list has an entry i and no heading otherwise.
C13_HeadingsByPosition ==
    Rendered =>
        /\ Len(accessed) = Len(model.data)
        /\ \A i \in RawIndexes(model) :
              accessed[i].column.heading =
                  (IF model.headings # None /\ i <= Len(model.headings[1])
                   THEN Some(model.headings[1][i]) ELSE None)

\* two raw sequences and three headings: two columns, with the first two headings
C13_Witness ==
    /\ Rendered
    /\ RawIndexes(model) = {1, 2}
    /\ model.headings = Some(<<StrXyz, <<>>, StrA>>)
    /\ Len(accessed) = 2
    /\ accessed[1].column.heading = Some(StrXyz)
    /\ accessed[2].column.heading = Some(<<>>)

RECURSIVE SplitLines(_)
SplitLines(s) ==
    IF \A k \in 1..Len(s) : s[k] # "\n" THEN <<s>>
    ELSE LET k == CHOOSE j \in 1..Len(s) :
                      s[j] = "\n" /\ \A h \in 1..(j - 1) : s[h] # "\n"
         IN <<SubSeq(s, 1, k - 1)>> \o SplitLines(SubSeq(s, k + 1, Len(s)))

AccessedColumns == [i \in 1..Len(accessed) |-> accessed[i].column]

HasNonEmptyHeading ==
    \E c \in 1..Len(accessed) :
        /\ accessed[c].column.heading # None
        /\ accessed[c].column.heading[1] # <<>>

LongestData == MaxOf({Len(accessed[c].column.data) : c \in 1..Len(accessed)})

\* the rows a renderer is to print: header and separator rows of a Table
\* with a heading, and the data rows
HeadRows ==
    IF renderer.kind = "Table" /\ HasNonEmptyHeading
    THEN (IF renderer.show_sep THEN 2 ELSE 1)
    ELSE 0

\* C15: for cells, headings and spacers without line breaks, the text is the
\* rows joined by single newlines with nothing appended: split at the newlines
\* it has one line per row, and no line ends with a whitespace character.
C15_NoTrailingWhitespace ==
    Rendered =>
        LET lines == SplitLines(result)
        IN /\ \A k \in 1..Len(lines) :
                 lines[k] = <<>> \/ lines[k][Len(lines[k])] \notin Whitespace
           /\ IF HeadRows + LongestData = 0 THEN result = <<>>
              ELSE Len(lines) = HeadRows + LongestData

\* a spacer that ends with a blank, a text of several lines, and a row whose
\* last cell is empty
C15_Witness ==
    /\ Rendered
    /\ renderer.spacer = <<"|", " ">>
    /\ Len(accessed) = 2
    /\ Len(accessed[1].column.data) = 2
    /\ Len(accessed[2].column.data) = 1
    /\ Len(SplitLines(result)) >= 2

Blanks(n) == [k \in 1..n |-> " "]
Dashes(n) == [k \in 1..n |-> "-"]

\* a text justified in a field of w characters
PadTo(t, w, align) ==
    LET pad == IF Len(t) >= w THEN 0 ELSE w - Len(t)
        lpad == IF align = RIGHT THEN pad
                ELSE IF align = CENTER THEN pad \div 2
                ELSE 0
    IN Blanks(lpad) \o t \o Blanks(pad - lpad)

\* C16: a Table on a Model with a non-empty heading prints the header row
\* (each heading justified to the width of its column, blank where a column
\* has none), then, only with show_sep, the row of '-' runs as long as the
\* column widths, joined by the spacer, then one line per data row in order
\* (rows are stripped of trailing whitespace).
C16_TableLayout ==
    (Rendered /\ renderer.kind = "Table" /\ HasNonEmptyHeading) =>
        LET cols == AccessedColumns
            lines == SplitLines(result)
            off == IF renderer.show_sep THEN 2 ELSE 1
            w(c) == Column_len(cols[c])
            al(c) == IF cols[c].align = NoAlign THEN LEFT ELSE cols[c].align
            cell(c, r) == IF r <= Len(cols[c].data) THEN cols[c].data[r] ELSE <<>>
            Row(parts) == RStrip(Join(renderer.spacer, parts))
        IN /\ Len(lines) = off + LongestData
           /\ lines[1] = Row([c \in 1..Len(cols) |->
                                PadTo(IF cols[c].heading = None THEN <<>>
                                      ELSE cols[c].heading[1], w(c), al(c))])
           /\ renderer.show_sep =>
                  lines[2] = Row([c \in 1..Len(cols) |-> Dashes(w(c))])
           /\ \A r \in 1..LongestData :
                  lines[off + r] =
                      Row([c \in 1..Len(cols) |-> PadTo(cell(c, r), w(c), al(c))])

\* the Name/Age table with the default spacer and the separator row
C16_Witness ==
    /\ Rendered
    /\ renderer = [kind |-> "Table", spacer |-> <<" ", " ">>, show_sep |-> TRUE]
    /\ model = Model_from_rows(ScenarioRows, TRUE, NoAlign)
    /\ SplitLines(result) =
           << StrName \o <<" ", " ", " ">> \o StrAge,
              Dashes(5) \o <<" ", " ">> \o Dashes(3),
              StrAlice \o <<" ", " ", " ">> \o Str25,
              StrBob \o Blanks(5) \o Str30 >>


---------------------------------------------------------------------------
(* simplecol/preprocessing.py and simplecol/__init__.py: columnize *)

\* the characters of the inputs in code point order, the order of strxfrm in
\* the C locale
Alphabet ==
    <<"\n", " ", "#", "0", "1", "2", "3", "4", "5", "6", "7", "8", "9",
      "a", "b", "c", "d", "e", "f", "g", "h", "i", "j", "k", "l", "m",
      "n", "o", "p", "q", "r", "s", "t", "u", "v", "w", "x", "y", "z">>
ord(ch) == CHOOSE k \in 1..Len(Alphabet) : Alphabet[k] = ch

str_less(a, b) ==
    \E k \in 1..(Len(a) + 1) :
        /\ \A h \in 1..(k - 1) : h <= Len(b) /\ a[h] = b[h]
        /\ k <= Len(b)
        /\ k > Len(a) \/ ord(a[k]) < ord(b[k])

\* values: a list, a tuple, a dict (keys and their values) or a stream of lines
Values(kind, keys, vals) == [kind |-> kind, keys |-> keys, vals |-> vals]

\* read_lines: lines stripped on the right, empty lines and comments skipped
RECURSIVE read_lines(_)
read_lines(stream) ==
    IF stream = <<>> THEN <<>>
    ELSE LET line == RStrip(Head(stream))
         IN IF line = <<>> \/ line[1] = "#" THEN read_lines(Tail(stream))
            ELSE <<line>> \o read_lines(Tail(stream))

extract(source) ==
    IF source.kind = "stream" THEN Values("list", read_lines(source.keys), <<>>)
    ELSE source

\* drops a value only when it repeats the value right before it
RECURSIVE unique_items_adjacent(_)
unique_items_adjacent(items_list) ==
    IF items_list = <<>> THEN <<>>
    ELSE LET n == Len(items_list)
             front == unique_items_adjacent(SubSeq(items_list, 1, n - 1))
         IN IF n > 1 /\ items_list[n - 1] = items_list[n] THEN front
            ELSE Append(front, items_list[n])

\* list(dict.fromkeys(values)): the first occurrence of every value
RECURSIVE unique_items(_)
unique_items(items_list) ==
    IF items_list = <<>> THEN <<>>
    ELSE LET n == Len(items_list)
             front == unique_items(SubSeq(items_list, 1, n - 1))
         IN IF \E k \in 1..Len(front) : front[k] = items_list[n] THEN front
            ELSE Append(front, items_list[n])

get_unique(v) == Values("list", unique_items(v.keys), <<>>)

\* sorted(values, key=strxfrm)
RECURSIVE sorted(_)
sorted(items_list) ==
    IF items_list = <<>> THEN <<>>
    ELSE LET n == Len(items_list)
             front == sorted(SubSeq(items_list, 1, n - 1))
             x == items_list[n]
             before == {k \in 1..Len(front) : ~str_less(x, front[k])}
         IN SubSeq(front, 1, Cardinality(before)) \o <<x>>
            \o SubSeq(front, Cardinality(before) + 1, Len(front))

\* set_result: a mapping stays a mapping, with its keys in the new order
set_result(v, result_keys) ==
    IF v.kind = "dict"
    THEN Values("dict", result_keys,
                [i \in 1..Len(result_keys) |->
                    v.vals[CHOOSE k \in 1..Len(v.keys) : v.keys[k] = result_keys[i]]])
    ELSE Values("list", result_keys, <<>>)

get_sorted(v) == set_result(v, sorted(v.keys))

\* prepare with colidx = None and pattern = None
prepare(source, unique, sort) ==
    LET extracted == extract(source)
        uniq == IF unique /\ extracted.kind # "dict" THEN get_unique(extracted)
                ELSE extracted
    IN IF sort THEN get_sorted(uniq) ELSE uniq

get_frame_one_row(v, line_width, vertical) ==
    IF v.kind = "list" /\ Len(v.keys) > 0
    THEN Model_from_columns([i \in 1..Len(v.keys) |-> RawSeq(<<v.keys[i]>>)],
                            None, NoAlign)
    ELSE Model(<<>>, None, NoAlign)

\* FrameBuilder.get_frame: one column of all the values for a non-empty list,
\* an empty Model for everything else; line_width and vertical are not read
get_frame(v, line_width, vertical) ==
    IF v.kind = "list" /\ Len(v.keys) > 0
    THEN Model_from_columns(<<RawSeq(v.keys)>>, None, NoAlign)
    ELSE Model(<<>>, None, NoAlign)

\* the Model of the frame columnize returns
columnize(source, o) ==
    Frame_align(get_frame(prepare(source, o.unique, o.sort), o.width, o.vertical),
                o.side)

StrApple == <<"a", "p", "p", "l", "e">>
StrBanana == <<"b", "a", "n", "a", "n", "a">>
StrCherry == <<"c", "h", "e", "r", "r", "y">>
StrDate == <<"d", "a", "t", "e">>
StrElderberry == <<"e", "l", "d", "e", "r", "b", "e", "r", "r", "y">>
Fruits == <<StrApple, StrBanana, StrCherry, StrDate, StrElderberry>>
StrB == <<"b">>
StrBbb == <<"b", "b", "b">>

ColumnizeValues ==
    {Values("list", <<>>, <<>>),
     Values("list", <<StrA, StrBbb>>, <<>>),
     Values("list", <<Str1, Str22>>, <<>>),
     Values("list", <<StrB, StrA, StrB>>, <<>>),
     Values("list", Fruits, <<>>),
     Values("tuple", <<StrB, StrA, StrB>>, <<>>),
     Values("tuple", <<StrA>>, <<>>),
     Values("dict", <<<<"k">>, <<"a">>>>, <<<<"v">>, <<"z">>>>),
     Values("stream", << <<"x", "\n">>, <<"\n">>, <<"#", "c", "\n">>,
                         <<"y", "y", " ", "\n">> >>, <<>>)}
LineWidths == {None, Some(20)} \cup {Some(w) : w \in 1..MaxLineWidth}

InitColumnize ==
    /\ op = "init"
    /\ values \in ColumnizeValues
    /\ opts \in [width : LineWidths, vertical : BOOLEAN, side : Sides,
                 unique : BOOLEAN, sort : BOOLEAN]
    /\ model = NoModel /\ src = None /\ aligns = <<>> /\ renderer = NoRenderer
    /\ result = <<>>
    /\ RowsIdle /\ DetectIdle /\ ColumnIdle /\ AccessIdle /\ OtherIdle

\* frame = columnize(values, width=, vertical=, side=, unique=, sort=)
Columnize ==
    /\ op = "init"
    /\ op' = "columnize"
    /\ model' = columnize(values, opts)
    /\ accessed' =
           aligned_objects(get_frame(prepare(values, opts.unique, opts.sort),
                                     opts.width, opts.vertical),
                           side_to_align(opts.side))
    /\ renderer' = [kind |-> "Screen", spacer |-> <<" ", " ">>, show_sep |-> FALSE]
    /\ UNCHANGED <<rowsVars, src, aligns, columnVars, legacyVars, otherVars, items,
                   first, result>>

\* str(frame)
FrameStr ==
    /\ op = "columnize"
    /\ op' = "str"
    /\ result' = Frame_str(model)
    /\ UNCHANGED <<rowsVars, modelVars, columnVars, accessVars, legacyVars,
                   otherVars, items>>

NextColumnize == Columnize \/ FrameStr

SpecColumnize == InitColumnize /\ [][NextColumnize]_vars

---------------------------------------------------------------------------
(* Claims about columnize, checked under SpecColumnize *)

Prepared == prepare(values, opts.unique, opts.sort)

LineFits(line, w) == Len(line) <= w

\* C17: for a list and a target width w, every line of the printed frame has
\* at most w characters, or the frame is the single column of the prepared
\* values, one value per line.
C17_FitsOrSingleColumn ==
    (op = "str" /\ values.kind = "list" /\ opts.width # None) =>
        LET lines == SplitLines(result)
        IN \/ \A k \in 1..Len(lines) : LineFits(lines[k], opts.width[1])
           \/ /\ Len(Model_columns(model)) = 1
              /\ Len(lines) = Len(Prepared.keys)
              /\ \A k \in 1..Len(lines) : Strip(lines[k]) = Prepared.keys[k]

\* the five fruits with target width 3: no line fits, one value per line
C17_Witness ==
    /\ op = "str"
    /\ values = Values("list", Fruits, <<>>)
    /\ opts.width = Some(3)
    /\ ~opts.sort
    /\ SplitLines(result) = Fruits

\* the values read column by column, top to bottom
RECURSIVE Concat(_)
Concat(seqs) == IF seqs = <<>> THEN <<>> ELSE Head(seqs) \o Concat(Tail(seqs))

\* C18: the five fruits with target width 20, vertical, give a frame of more
\* than one column whose lines have at most 20 characters, and the columns
\* read top to bottom, left to right give the values in input order.
C18_FruitsInSeveralColumns ==
    (/\ op = "str"
     /\ values = Values("list", Fruits, <<>>)
     /\ opts.width = Some(20) /\ opts.vertical
     /\ ~opts.unique /\ ~opts.sort) =>
        LET columns == Model_columns(model)
            lines == SplitLines(result)
        IN /\ Len(columns) > 1
           /\ \A k \in 1..Len(lines) : LineFits(lines[k], 20)
           /\ Concat([c \in 1..Len(columns) |-> columns[c].data]) = Fruits

\* C19: columnize(values, side=s) on a non-empty list prints every value
\* justified to the column width on side s: flush left for "left", flush
\* right for "right".
C19_SideAlignsValues ==
    (/\ op = "str"
     /\ values.kind = "list" /\ Prepared.keys # <<>>
     /\ opts.side \in {"left", "right"}) =>
        LET lines == SplitLines(result)
            w == MaxOf({Len(Prepared.keys[k]) : k \in 1..Len(Prepared.keys)})
        IN /\ Len(lines) = Len(Prepared.keys)
           /\ \A k \in 1..Len(lines) :
                  lines[k] = RStrip(PadTo(Prepared.keys[k], w, side_to_align(opts.side)))

Contains(line, t) ==
    \E k \in 0..(Len(line) - Len(t)) : SubSeq(line, k + 1, k + Len(t)) = t

\* C20: for a non-empty list, tuple, dict or stream every value the
\* preparation keeps appears in the printed frame, and a dict is printed with
\* one line per key/value pair.
C20_EveryKindIsPrinted ==
    (op = "str" /\ Prepared.keys # <<>>) =>
        LET lines == SplitLines(result)
        IN /\ \A i \in 1..Len(Prepared.keys) :
                  \E k \in 1..Len(lines) : Contains(lines[k], Prepared.keys[i])
           /\ values.kind = "dict" =>
                  /\ Len(lines) = Len(Prepared.keys)
                  /\ \A i \in 1..Len(lines) :
                         /\ Contains(lines[i], Prepared.keys[i])
                         /\ Contains(lines[i], Prepared.vals[i])


---------------------------------------------------------------------------
(* cli.py: CLIParser.parse_alignment_token and CLIParser.parse_alignments *)

\* str.split(sep) for a separator of one character
RECURSIVE str_split(_, _)
str_split(s, sep) ==
    IF \A k \in 1..Len(s) : s[k] # sep THEN <<s>>
    ELSE LET k == CHOOSE j \in 1..Len(s) :
                      s[j] = sep /\ \A h \in 1..(j - 1) : s[h] # sep
         IN <<SubSeq(s, 1, k - 1)>> \o str_split(SubSeq(s, k + 1, Len(s)), sep)

\* what a call gives: a value returned or an exception with its message
Returned(value) == [ok |-> TRUE, value |-> value, message |-> <<>>]
Raised(message) == [ok |-> FALSE, value |-> <<>>, message |-> message]

StrUnknownAlignment == <<"u", "n", "k", "n", "o", "w", "n", " ", "a", "l",
  "i", "g", "n", "m", "e", "n", "t", ":", " ">>

\* repr of a str without quotes or escapes in it
repr(s) == <<"'">> \o s \o <<"'">>

TokensLeft == {<<"l", "e", "f", "t">>, <<"l">>, <<"<">>}
TokensRight == {<<"r", "i", "g", "h", "t">>, <<"r">>, <<">">>}
TokensCenter ==
    {<<"c", "e", "n", "t", "e", "r">>, <<"c">>,
     <<"c", "e", "n", "t", "r", "e">>, <<"^">>}
TokensAuto == {<<"a", "u", "t", "o">>, <<"a">>}

parse_alignment_token_no_strip(token) ==
    LET t == LowerStr(token)
    IN IF t \in TokensLeft THEN Returned("LEFT")
       ELSE IF t \in TokensRight THEN Returned("RIGHT")
       ELSE IF t \in TokensCenter THEN Returned("CENTER")
       ELSE IF t \in TokensAuto THEN Returned("AUTO")
       ELSE Raised(StrUnknownAlignment \o repr(token))

parse_alignment_token(token) ==
    LET t == LowerStr(Strip(token))
    IN IF t \in TokensLeft THEN Returned("LEFT")
       ELSE IF t \in TokensRight THEN Returned("RIGHT")
       ELSE IF t \in TokensCenter THEN Returned("CENTER")
       ELSE IF t \in TokensAuto THEN Returned("AUTO")
       ELSE Raised(StrUnknownAlignment \o repr(token))

\* [p.strip() for p in arg.split(",") if p.strip()]
alignment_parts(arg) ==
    SelectSeq([k \in 1..Len(str_split(arg, ",")) |-> Strip(str_split(arg, ",")[k])],
              LAMBDA p : p # <<>>)

extended_never(tokens, n) == tokens

\* aligns.extend([aligns[-1]] * (ncols - len(aligns))) when len(aligns) < ncols
extended(tokens, n) ==
    IF Len(tokens) < n
    THEN tokens \o [k \in 1..(n - Len(tokens)) |-> tokens[Len(tokens)]]
    ELSE tokens

\* seq[:n]
take(seq, n) == SubSeq(seq, 1, IF n < Len(seq) THEN n ELSE Len(seq))

parse_alignments(arg, n) ==
    LET parts == alignment_parts(arg)
        parsed == [k \in 1..Len(parts) |-> parse_alignment_token(parts[k])]
        failed == {k \in 1..Len(parts) : ~parsed[k].ok}
        tokens == [k \in 1..Len(parts) |-> parsed[k].value]
    IN IF failed # {}
       THEN Raised(parsed[CHOOSE k \in failed : \A h \in failed : k <= h].message)
       ELSE IF tokens = <<>> THEN Returned([k \in 1..n |-> "LEFT"])
       ELSE IF Len(tokens) = 1 THEN Returned([k \in 1..n |-> tokens[1]])
       ELSE Returned(take(extended(tokens, n), n))

AlignStrings ==
    {<<>>,
     <<"l", "e", "f", "t">>,
     <<" ", "R", "i", "g", "h", "t", " ">>,
     <<"^">>,
     <<"a">>,
     <<"a", "u", "t", "o">>,
     <<"l", "e", "f", "t", ",", "r", "i", "g", "h", "t">>,
     <<"l", ",", "r", ",", "c", ",", "a">>,
     <<"l", "e", "f", "t", ",", ",", ">">>,
     <<"<", ",", " ", "c", "e", "n", "t", "r", "e">>,
     <<"b", "o", "g", "u", "s">>,
     <<"l", "e", "f", "t", ",", "b", "o", "g", "u", "s">>,
     <<"C">>,
     <<"l", "e", "f", "t", ",", "r", "i", "g", "h", "t", ",", "c", "e", "n",
       "t", "e", "r", ",", "a", "u", "t", "o">>}

InitAligns ==
    /\ op = "init"
    /\ args \in {[NoArgs EXCEPT !.align = a] : a \in AlignStrings}
    /\ ncols \in 0..MaxNcols
    /\ stdin = <<>> /\ stderr = <<>> /\ status = None
    /\ result = <<>>
    /\ RowsIdle /\ ModelIdle /\ DetectIdle /\ ColumnIdle /\ AccessIdle
    /\ LegacyIdle /\ PrepIdle /\ ShrinkIdle

ParseAlignmentToken ==
    /\ op = "init"
    /\ op' = "parse_alignment_token"
    /\ result' = parse_alignment_token(args.align)
    /\ UNCHANGED <<rowsVars, modelVars, columnVars, accessVars, legacyVars, otherVars,
                   items>>

ParseAlignments ==
    /\ op = "init"
    /\ op' = "parse_alignments"
    /\ result' = parse_alignments(args.align, ncols)
    /\ UNCHANGED <<rowsVars, modelVars, columnVars, accessVars, legacyVars, otherVars,
                   items>>

NextAligns == ParseAlignmentToken \/ ParseAlignments

SpecAligns == InitAligns /\ [][NextAligns]_vars

---------------------------------------------------------------------------
(* Claims about the alignment arguments, checked under SpecAligns *)

AlignmentNames == {"LEFT", "RIGHT", "CENTER", "AUTO"}

\* the non-empty tokens of the argument, in order
GivenTokens == alignment_parts(args.align)

ValidTokens(tokens) ==
    \A k \in 1..Len(tokens) : parse_alignment_token(tokens[k]).ok

\* C23: for an argument of valid tokens parse_alignments returns exactly ncols
\* alignment names: LEFT everywhere for an empty argument, the single token
\* everywhere, and otherwise token i for column i, the last token for the
\* columns beyond the tokens; tokens beyond ncols are dropped.
C23_OneAlignmentPerColumn ==
    (op = "parse_alignments" /\ ValidTokens(GivenTokens)) =>
        LET given == GivenTokens
            name(k) == parse_alignment_token(given[k]).value
        IN /\ result.ok
           /\ Len(result.value) = ncols
           /\ \A i \in 1..ncols :
                 /\ result.value[i] \in AlignmentNames
                 /\ result.value[i] =
                        (IF given = <<>> THEN "LEFT"
                         ELSE IF i <= Len(given) THEN name(i)
                         ELSE name(Len(given)))

\* two tokens for three columns: the last one is repeated
C23_Witness ==
    /\ op = "parse_alignments"
    /\ args.align = <<"l", "e", "f", "t", ",", "r", "i", "g", "h", "t">>
    /\ ncols = 3
    /\ result = Returned(<<"LEFT", "RIGHT", "RIGHT">>)


---------------------------------------------------------------------------
(* cli.py: run, with simplecol/__init__.py: _read_columns_from_text_files and
   _read_rows_from_csv_files.  The delimiter is ",", the input has no quoted
   fields, and a file named on the command line does not exist. *)

\* the lines a text stream yields, each with its line end
RECURSIVE stream_lines(_)
stream_lines(s) ==
    IF s = <<>> THEN <<>>
    ELSE IF \A k \in 1..Len(s) : s[k] # "\n" THEN <<s>>
    ELSE LET k == CHOOSE j \in 1..Len(s) :
                      s[j] = "\n" /\ \A h \in 1..(j - 1) : s[h] # "\n"
         IN <<SubSeq(s, 1, k)>> \o stream_lines(SubSeq(s, k + 1, Len(s)))

\* line.rstrip('\n\r')
RECURSIVE rstrip_newlines(_)
rstrip_newlines(s) ==
    IF Len(s) > 0 /\ s[Len(s)] \in {"\n", "\r"}
    THEN rstrip_newlines(SubSeq(s, 1, Len(s) - 1))
    ELSE s

\* csv.reader on unquoted text: a blank line gives an empty row
csv_reader(s) ==
    [k \in 1..Len(stream_lines(s)) |->
        LET line == rstrip_newlines(stream_lines(s)[k])
        IN IF line = <<>> THEN <<>> ELSE str_split(line, ",")]

StrNoSuchFile == <<"[", "E", "r", "r", "n", "o", " ", "2", "]", " ", "N",
  "o", " ", "s", "u", "c", "h", " ", "f", "i", "l", "e", " ", "o", "r", " ",
  "d", "i", "r", "e", "c", "t", "o", "r", "y", ":", " ">>
StrErrorReadingInput == <<"E", "r", "r", "o", "r", " ", "r", "e", "a", "d",
  "i", "n", "g", " ", "i", "n", "p", "u", "t", ":", " ">>
StrMissingFile == <<"n", "o", "n", "e", "x", "i", "s", "t", "e", "n", "t",
  ".", "c", "s", "v">>

\* open(filename, 'r') of a file that does not exist
open_error(filename) == Raised(StrNoSuchFile \o repr(filename))

read_rows_from_csv_files(files, s) ==
    IF files # <<>> THEN open_error(files[1]) ELSE Returned(csv_reader(s))

\* the stripped parts of the non-empty lines
line_parts(s) ==
    LET stripped == [k \in 1..Len(stream_lines(s)) |->
                        rstrip_newlines(stream_lines(s)[k])]
        kept == SelectSeq(stripped, LAMBDA line : line # <<>>)
    IN [k \in 1..Len(kept) |->
           [j \in 1..Len(str_split(kept[k], ",")) |-> Strip(str_split(kept[k], ",")[j])]]

\* columns[i].append(part) for part i of every line: column i holds the
\* i-th parts of the lines that have one
columns_by_part(parts) ==
    [i \in 1..MaxOf({Len(parts[k]) : k \in 1..Len(parts)}) |->
        LET having == SelectSeq(parts, LAMBDA p : Len(p) >= i)
        IN [k \in 1..Len(having) |-> having[k][i]]]

read_columns_from_text_files(files, s) ==
    IF files # <<>> THEN open_error(files[1])
    ELSE Returned(columns_by_part(line_parts(s)))

token_to_alignment(token) == IF token = "AUTO" THEN NoAlign ELSE token

alignment_list(tokens) == [k \in 1..Len(tokens) |-> token_to_alignment(tokens[k])]

\* what the try block of run leaves: the Model and the alignments given to
\* with_aligns, or the exception
Built(m, als, rws) == [ok |-> TRUE, model |-> m, aligns |-> als, rows |-> rws,
                       message |-> <<>>]
Failed(message) == [ok |-> FALSE, model |-> NoModel, aligns |-> <<>>, rows |-> <<>>,
                    message |-> message]

run_columns(a, s) ==
    LET read == read_columns_from_text_files(a.files, s)
        raw_cols == read.value
        with_header == a.header /\ raw_cols # <<>>
        headings == IF with_header
                    THEN Some([i \in 1..Len(raw_cols) |->
                                  IF raw_cols[i] # <<>> THEN raw_cols[i][1] ELSE <<>>])
                    ELSE None
        data == [i \in 1..Len(raw_cols) |->
                    RawSeq(IF with_header /\ raw_cols[i] # <<>>
                           THEN Tail(raw_cols[i]) ELSE raw_cols[i])]
        parsed == parse_alignments(a.align, Len(raw_cols))
    IN IF ~read.ok THEN Failed(read.message)
       ELSE IF ~parsed.ok THEN Failed(parsed.message)
       ELSE Built(Model_with_aligns(Model_from_columns(data, headings, LEFT),
                                    alignment_list(parsed.value)),
                  alignment_list(parsed.value), <<>>)

has_comma(s) == \E k \in 1..Len(s) : s[k] = ","

\* row mode: the whole --align argument is parsed as one token first
run_rows(a, s) ==
    LET read == read_rows_from_csv_files(a.files, s)
        parsed(n) == parse_alignments(a.align, n)
        token == parse_alignment_token(a.align)
        m == Model_from_rows(read.value, a.header, token_to_alignment(token.value))
    IN IF ~read.ok THEN Failed(read.message)
       ELSE IF ~token.ok THEN Failed(token.message)
       ELSE IF has_comma(a.align)
       THEN IF parsed(Len(Model_columns(m))).ok
            THEN Built(Model_with_aligns(m,
                           alignment_list(parsed(Len(Model_columns(m))).value)),
                       alignment_list(parsed(Len(Model_columns(m))).value), read.value)
            ELSE Failed(parsed(Len(Model_columns(m))).message)
       ELSE Built(m, <<>>, read.value)

run_try(a, s) == IF a.columns THEN run_columns(a, s) ELSE run_rows(a, s)

\* Table when a column has a heading, otherwise Screen
run_renderer(a, m) ==
    IF has_headers(Model_columns(m))
    THEN [kind |-> "Table", spacer |-> a.spacer, show_sep |-> ~a.no_sep]
    ELSE [kind |-> "Screen", spacer |-> a.spacer, show_sep |-> FALSE]

renderer_str(r, m) ==
    IF r.kind = "Table" THEN Table_str(m, r.spacer, r.show_sep)
    ELSE Screen_str(m, r.spacer)

ExitOk == 0
ExitError == 2

CliTexts ==
    {<<>>,
     <<"N", "a", "m", "e", ",", "A", "g", "e", "\n", "A", "l", "i", "c", "e",
       ",", "2", "5", "\n", "B", "o", "b", ",", "3", "0">>,
     <<"a", ",", "b", "\n", "1", ",", "2", "2", "\n">>,
     <<"a", ",", " ", "b", "\n", "\n", "1", "\r", "\n">>}
CliAligns ==
    {<<"l", "e", "f", "t">>,
     <<" ", "R", "i", "g", "h", "t", " ">>,
     <<"a", "u", "t", "o">>,
     <<"l", "e", "f", "t", ",", "r", "i", "g", "h", "t">>,
     <<"r", ",", "l", ",", "^">>,
     <<"b", "o", "g", "u", "s">>,
     <<"l", "e", "f", "t", ",", "b", "o", "g", "u", "s">>,
     <<>>}
CliArgs ==
    {[files |-> f, columns |-> c, align |-> a, header |-> h, no_sep |-> n,
      spacer |-> <<" ", " ">>] :
        f \in {<<>>, <<StrMissingFile>>}, c \in BOOLEAN, a \in CliAligns,
        h \in BOOLEAN, n \in BOOLEAN}

InitCli ==
    /\ op = "init"
    /\ args \in CliArgs
    /\ stdin \in CliTexts
    /\ stderr = <<>> /\ status = None /\ ncols = 0
    /\ result = <<>>
    /\ RowsIdle /\ ModelIdle /\ DetectIdle /\ ColumnIdle /\ AccessIdle
    /\ LegacyIdle /\ PrepIdle /\ ShrinkIdle

\* run(parser): build the Model, print it, or print the error
Run ==
    /\ op = "init"
    /\ op' = "run"
    /\ LET built == run_try(args, stdin)
       IN /\ model' = built.model
          /\ aligns' = built.aligns
          /\ rows' = built.rows
          /\ headers' = args.header
          /\ ncols' = Len(built.aligns)
          /\ IF built.ok
             THEN /\ renderer' = run_renderer(args, built.model)
                  /\ result' = renderer_str(run_renderer(args, built.model),
                                            built.model) \o NL
                  /\ stderr' = <<>>
                  /\ status' = Some(ExitOk)
             ELSE /\ renderer' = NoRenderer
                  /\ result' = <<>>
                  /\ stderr' = StrErrorReadingInput \o built.message \o NL
                  /\ status' = Some(ExitError)
    /\ UNCHANGED <<src, columnVars, accessVars, legacyVars, prepVars, shrinkVars,
                   items, args, stdin>>

\* parser.parse_alignment_token(args.align) on its own
CliParseToken ==
    /\ op = "init"
    /\ op' = "parse_alignment_token"
    /\ result' = parse_alignment_token(args.align)
    /\ UNCHANGED <<rowsVars, modelVars, columnVars, accessVars, legacyVars, otherVars,
                   items>>

NextCli == Run \/ CliParseToken

SpecCli == InitCli /\ [][NextCli]_vars


---------------------------------------------------------------------------
(* Claims about cli.run, checked under SpecCli *)

Ran == op = "run"

\* C21: in row mode, --align given as a comma-separated list of two or more
\* valid tokens makes run return 0 with column i of the printed Model aligned
\* as the i-th token says (the last token for the columns beyond the list).
C21_RowModeAlignmentList ==
    (/\ Ran /\ ~args.columns /\ args.files = <<>>
     /\ Len(GivenTokens) >= 2 /\ ValidTokens(GivenTokens)) =>
        /\ status = Some(ExitOk)
        /\ \A i \in 1..Len(Model_columns(model)) :
              Model_columns(model)[i].align =
                  token_to_alignment(
                      parse_alignment_token(
                          GivenTokens[IF i <= Len(GivenTokens) THEN i
                                      ELSE Len(GivenTokens)]).value)

\* the fields of the non-empty input lines
InputLines == line_parts(stdin)

\* C22: in columns mode input line i is column i: its fields are the cells of
\* the column, in order; with --header the first field is the heading of the
\* column and the cells start with the second field.
C22_EachLineIsAColumn ==
    (Ran /\ args.columns /\ status = Some(ExitOk)) =>
        LET columns == Model_columns(model)
        IN /\ Len(columns) = Len(InputLines)
           /\ \A i \in 1..Len(columns) :
                 IF args.header
                 THEN /\ columns[i].heading = Some(InputLines[i][1])
                      /\ columns[i].data = Tail(InputLines[i])
                 ELSE columns[i].data = InputLines[i]

Recognized(token) ==
    LowerStr(Strip(token)) \in
        TokensLeft \cup TokensRight \cup TokensCenter \cup TokensAuto

\* what makes the try block of run fail: a file that cannot be opened, a
\* token of the list that is not recognized (columns mode), or an argument
\* that is not one recognized token (row mode)
InputFails ==
    \/ args.files # <<>>
    \/ args.columns /\ \E k \in 1..Len(GivenTokens) : ~Recognized(GivenTokens[k])
    \/ ~args.columns /\ ~Recognized(args.align)

StartsWith(s, prefix) ==
    Len(s) >= Len(prefix) /\ SubSeq(s, 1, Len(prefix)) = prefix

---------------------------------------------------------------------------
(* simplecol/preprocessing.py: get_unique and prepare applied to values *)

PrepareItems == {StrA, StrB, Str1}
PrepareValues ==
    {Values("list", v, <<>>) : v \in SeqsUpTo(PrepareItems, MaxValues)}
    \cup {Values("tuple", <<StrB, StrA, StrB>>, <<>>),
          Values("dict", <<StrB, StrA>>, <<Str1, Str1>>),
          Values("stream", << <<"b", "\n">>, <<"\n">>, <<"a", " ", "\n">>,
                              <<"b", "\n">> >>, <<>>)}

InitPrepare ==
    /\ op = "init"
    /\ values \in PrepareValues
    /\ opts \in {[NoOpts EXCEPT !.unique = u, !.sort = s] :
                    u \in BOOLEAN, s \in BOOLEAN}
    /\ prepared = NoValues
    /\ result = <<>>
    /\ RowsIdle /\ ModelIdle /\ DetectIdle /\ ColumnIdle /\ AccessIdle
    /\ CliIdle /\ ShrinkIdle

\* get_unique(values) on a list or a tuple
GetUnique ==
    /\ op = "init"
    /\ values.kind \in {"list", "tuple"}
    /\ op' = "get_unique"
    /\ prepared' = get_unique(values)
    /\ UNCHANGED <<rowsVars, modelVars, columnVars, accessVars, legacyVars, cliVars,
                   shrinkVars, items, result>>

\* get_unique on what get_unique returned
GetUniqueAgain ==
    /\ op = "get_unique"
    /\ op' = "get_unique_again"
    /\ prepared' = get_unique(prepared)
    /\ UNCHANGED <<rowsVars, modelVars, columnVars, accessVars, legacyVars, cliVars,
                   shrinkVars, items, result>>

\* prepare(values, unique=, sort=)
Prepare ==
    /\ op = "init"
    /\ op' = "prepare"
    /\ prepared' = prepare(values, opts.unique, opts.sort)
    /\ UNCHANGED <<rowsVars, modelVars, columnVars, accessVars, legacyVars, cliVars,
                   shrinkVars, items, result>>

NextPrepare == GetUnique \/ GetUniqueAgain \/ Prepare

SpecPrepare == InitPrepare /\ [][NextPrepare]_vars

---------------------------------------------------------------------------
(* Claims about the preparation step, checked under SpecPrepare *)

Elements(seq) == {seq[k] : k \in 1..Len(seq)}

NoDuplicates(seq) == \A i, j \in 1..Len(seq) : seq[i] = seq[j] => i = j

FirstIndex(seq, x) == CHOOSE k \in 1..Len(seq) :
                          seq[k] = x /\ \A h \in 1..(k - 1) : seq[h] # x

\* out holds every distinct value of inp once, in the order of first occurrence
IsFirstOccurrences(out, inp) ==
    /\ NoDuplicates(out)
    /\ Elements(out) = Elements(inp)
    /\ \A i, j \in 1..Len(out) :
          i < j => FirstIndex(inp, out[i]) < FirstIndex(inp, out[j])

\* C27: get_unique of a list or tuple returns the first occurrence of every
\* distinct value, without duplicates and in the order of first occurrence,
\* and so does get_unique applied to that result (twice is the same as once);
\* prepare with unique=True does this for a non-mapping and leaves a mapping
\* as it is.
C27_UniqueKeepsFirstOccurrences ==
    /\ op \in {"get_unique", "get_unique_again"} =>
          /\ prepared.kind = "list"
          /\ IsFirstOccurrences(prepared.keys, values.keys)
    /\ (op = "prepare" /\ opts.unique) =>
          IF values.kind = "dict"
          THEN ~opts.sort => prepared = values
          ELSE /\ NoDuplicates(prepared.keys)
               /\ Elements(prepared.keys) = Elements(extract(values).keys)
               /\ ~opts.sort =>
                      IsFirstOccurrences(prepared.keys, extract(values).keys)

\* a value repeated after another one, and get_unique applied twice
C27_Witness ==
    /\ op = "get_unique_again"
    /\ values.keys = <<StrB, StrA, StrB>>
    /\ prepared.keys = <<StrB, StrA>>


---------------------------------------------------------------------------
(* Layout engine, shrink algorithm (spec.md section 4.4): shrinkToWidth *)

Min(a, b) == IF a <= b THEN a ELSE b

RECURSIVE sum_widths(_)
sum_widths(w) == IF w = <<>> THEN 0 ELSE Head(w) + sum_widths(Tail(w))

\* the total line width: the widths plus the spacers between them
line_total(w, spacer) == sum_widths(w) + spacer * (Len(w) - 1)

\* the width of the layout whose columns all have width 1
all_ones_total(w, spacer) == Len(w) + spacer * (Len(w) - 1)

\* a scan whose last column has no floor to be paired against
RECURSIVE shrink_scan_no_floor(_, _, _)
shrink_scan_no_floor(w, over, i) ==
    IF i >= Len(w) THEN [widths |-> w, overflow |-> over]
    ELSE LET d == IF w[i] > w[i + 1] THEN Min(over, w[i] - w[i + 1]) ELSE 0
         IN shrink_scan_no_floor([w EXCEPT ![i] = w[i] - d], over - d, i + 1)

\* one scan of the pairs (column i, column i+1) from column i on, the last
\* column paired against a floor of 1: a column wider than the later one is
\* reduced by min(overflow, width[i] - width[i+1])
RECURSIVE shrink_scan(_, _, _)
shrink_scan(w, over, i) ==
    IF i > Len(w) THEN [widths |-> w, overflow |-> over]
    ELSE LET later == IF i < Len(w) THEN w[i + 1] ELSE 1
             d == IF w[i] > later THEN Min(over, w[i] - later) ELSE 0
         IN shrink_scan([w EXCEPT ![i] = w[i] - d], over - d, i + 1)

shrink_pass(w, over) == shrink_scan(w, over, 1)

\* the loop condition: overflow > 0 and at least one width exceeds 1
can_shrink(w, over) == over > 0 /\ \E i \in 1..Len(w) : w[i] > 1

\* the spacer is empty or one character long
SpacerLengths == {0, 1}

ShrinkLayouts ==
    {[widths |-> w, spacer |-> sp, target |-> t] :
        w \in SeqsUpTo(0..MaxShrinkWidth, MaxShrinkCols) \ {<<>>},
        sp \in SpacerLengths, t \in 1..MaxTarget}

\* shrinkToWidth(columns, targetWidth) has computed the overflow
InitShrink ==
    /\ op = "shrink"
    /\ layout \in ShrinkLayouts
    /\ widths = layout.widths
    /\ overflow = line_total(layout.widths, layout.spacer) - layout.target
    /\ result = <<>>
    /\ RowsIdle /\ ModelIdle /\ DetectIdle /\ ColumnIdle /\ AccessIdle
    /\ LegacyIdle /\ PrepIdle /\ CliIdle

\* one pass of the loop
ShrinkPass ==
    /\ op = "shrink"
    /\ can_shrink(widths, overflow)
    /\ widths' = shrink_pass(widths, overflow).widths
    /\ overflow' = shrink_pass(widths, overflow).overflow
    /\ UNCHANGED <<op, layout, rowsVars, modelVars, columnVars, accessVars,
                   legacyVars, prepVars, cliVars, items, result>>

\* the loop condition fails: the loop exits
ShrinkDone ==
    /\ op = "shrink"
    /\ ~can_shrink(widths, overflow)
    /\ op' = "done"
    /\ UNCHANGED <<layout, widths, overflow, rowsVars, modelVars, columnVars,
                   accessVars, legacyVars, prepVars, cliVars, items, result>>

NextShrink == ShrinkPass \/ ShrinkDone

SpecShrink == InitShrink /\ [][NextShrink]_vars

\* the loop is sequential code: a pass or the exit that can run does run
SpecShrinkFair == SpecShrink /\ WF_vars(NextShrink)

---------------------------------------------------------------------------
(* Claims about shrinkToWidth *)

\* C25: shrinkToWidth never increases a column's width, never decreases one
\* below 1, and when the target is at least the width of the all-ones layout
\* the line it leaves is at most the target wide.
C25_ShrinkKeepsFloorAndFits ==
    /\ \A i \in 1..Len(widths) :
          /\ widths[i] <= layout.widths[i]
          /\ widths[i] < layout.widths[i] => widths[i] >= 1
    /\ (op = "done"
          /\ layout.target >= all_ones_total(layout.widths, layout.spacer)) =>
          line_total(widths, layout.spacer) <= layout.target

NoWidthAboveOne == \A i \in 1..Len(widths) : widths[i] <= 1

\* C26 as stated: the loop ends, every pass strictly reduces the overflow,
\* and at the end the overflow is 0 or all widths are equal to 1.
C26_EndsWithZeroOverflowOrAllOnes ==
    /\ <>(op = "done")
    /\ [][(op = "shrink" /\ op' = "shrink") => overflow' < overflow]_vars
    /\ [](op = "done" =>
             \/ overflow = 0
             \/ \A i \in 1..Len(widths) : widths[i] = 1)

\* C26: the loop ends on every input: every pass strictly reduces the
\* overflow without taking it below 0, and at the end no overflow is left
\* (the overflow is not positive, and is exactly 0 when a pass changed a
\* width) or no column width exceeds 1.
C26_ShrinkTerminates ==
    /\ <>(op = "done")
    /\ [][(op = "shrink" /\ op' = "shrink") =>
             (overflow' < overflow /\ overflow' >= 0)]_vars
    /\ [](op = "done" =>
             /\ overflow <= 0 \/ NoWidthAboveOne
             /\ widths # layout.widths => overflow >= 0)

\* two passes were needed: <<3, 3>> became <<3, 1>>, then <<1, 1>>
C26_Witness ==
    /\ op = "done"
    /\ layout.widths = <<3, 3>>
    /\ layout.spacer = 0
    /\ layout.target = 2
    /\ widths = <<1, 1>>
    /\ overflow = 0


---------------------------------------------------------------------------
(* Claims about the shape of the rendered text, checked under SpecRender *)

RECURSIVE SumOf(_)
SumOf(numbers) == IF numbers = <<>> THEN 0 ELSE Head(numbers) + SumOf(Tail(numbers))

\* sum(column widths) + len(spacer) * (number of columns - 1)
FullWidth ==
    SumOf([c \in 1..Len(accessed) |-> Column_len(accessed[c].column)])
        + Len(renderer.spacer) * (Len(accessed) - 1)

\* no cell text and no heading is longer than the width of its column
NothingOverlong ==
    \A c \in 1..Len(accessed) :
        LET col == accessed[c].column
        IN /\ \A r \in 1..Len(col.data) : Len(col.data[r]) <= Column_len(col)
           /\ col.heading # None => Len(col.heading[1]) <= Column_len(col)

\* C28: the text has one line per data row of the longest column (after the
\* header rows of a Table); data line r is the spacer-joined row of one
\* justified cell per column, an empty cell where the column has no row r,
\* stripped of trailing whitespace; when no cell or heading is longer than
\* its column's width, every such row has, before stripping, the length
\* sum(column widths) + len(spacer) * (number of columns - 1), and no line of
\* the text is longer.
C28_RectangularOutput ==
    (Rendered /\ Len(accessed) > 0) =>
        LET cols == AccessedColumns
            lines == SplitLines(result)
            w(c) == Column_len(cols[c])
            al(c) == IF cols[c].align = NoAlign THEN LEFT ELSE cols[c].align
            cell(c, r) == IF r <= Len(cols[c].data) THEN cols[c].data[r] ELSE <<>>
            unstripped(r) ==
                Join(renderer.spacer,
                     [c \in 1..Len(cols) |-> PadTo(cell(c, r), w(c), al(c))])
        IN /\ IF HeadRows + LongestData = 0 THEN result = <<>>
              ELSE Len(lines) = HeadRows + LongestData
           /\ renderer.kind = "Screen" => HeadRows = 0
           /\ \A r \in 1..LongestData :
                 /\ lines[HeadRows + r] = RStrip(unstripped(r))
                 /\ NothingOverlong => Len(unstripped(r)) = FullWidth
           /\ NothingOverlong =>
                 \A k \in 1..Len(lines) : Len(lines[k]) <= FullWidth

\* a Screen of two columns, the first shorter than the second, nothing
\* overlong: two lines, the second starting with the blanks of an empty cell
C28_Witness ==
    /\ Rendered
    /\ renderer.kind = "Screen"
    /\ Len(accessed) = 2
    /\ Len(accessed[1].column.data) = 1
    /\ Len(accessed[2].column.data) = 2
    /\ Column_len(accessed[1].column) = 2
    /\ NothingOverlong
    /\ Len(SplitLines(result)) = 2
    /\ Len(SplitLines(result)[1]) = FullWidth
    /\ SubSeq(SplitLines(result)[2], 1, 2) = Blanks(2)

\* a cell longer than the explicit width of its Column makes a longer line
C28_OverlongWitness ==
    /\ Rendered
    /\ ~NothingOverlong
    /\ \E k \in 1..Len(SplitLines(result)) : Len(SplitLines(result)[k]) > FullWidth


\* C29: on a Model in which no column has a non-empty heading a Table prints,
\* for every spacer and either value of show_sep, exactly the text a Screen
\* prints: the data rows, with no header row and no separator row; on a Model
\* with no columns both print the empty string.
C29_TableWithoutHeadingIsScreen ==
    /\ (Rendered /\ renderer.kind = "Table" /\ ~HasNonEmptyHeading) =>
          /\ result = Screen_str(model, renderer.spacer)
          /\ HeadRows = 0
          /\ IF LongestData = 0 THEN result = <<>>
             ELSE Len(SplitLines(result)) = LongestData
    /\ (Rendered /\ Len(model.data) = 0) => result = <<>>

\* a Table with show_sep on two columns, one with the empty string as its
\* heading, that prints two data rows
C29_Witness ==
    /\ Rendered
    /\ renderer.kind = "Table"
    /\ renderer.show_sep
    /\ ~HasNonEmptyHeading
    /\ Len(accessed) = 2
    /\ \E c \in 1..2 : accessed[c].column.heading = Some(<<>>)
    /\ Len(SplitLines(result)) = 2
    /\ result # <<>>


---------------------------------------------------------------------------
(* A claim about Model.columns, checked under SpecAccess *)

\* C30: Model.columns returns a stored Column entry as the very same object,
\* with the heading, width, align and data it has whatever the Model's
\* headings and default alignment; an entry given as a raw sequence becomes a
\* new Column with its data, heading headings[i] (none without such an
\* entry), no explicit width, and the Model's default alignment or, when that
\* is unset, the detector's result for the sequence.
C30_ColumnsKeepsPrebuiltColumns ==
    op = "columns" =>
        /\ Len(accessed) = Len(model.data)
        /\ \A i \in 1..Len(model.data) :
              IF model.data[i].kind = "Column"
              THEN /\ accessed[i].same
                   /\ accessed[i].column = model.data[i]
              ELSE /\ ~accessed[i].same
                   /\ accessed[i].column.data = model.data[i].data
                   /\ accessed[i].column.heading =
                          (IF model.headings # None /\ i <= Len(model.headings[1])
                           THEN Some(model.headings[1][i]) ELSE None)
                   /\ accessed[i].column.width = None
                   /\ accessed[i].column.align =
                          (IF model.align # NoAlign THEN model.align
                           ELSE detect_auto_align(model.data[i].data))

\* a Model with a heading for its first entry and the default alignment
\* CENTER: its first entry, a Column without heading and align, is returned
\* without them, and its second, a raw sequence of numbers, is centred
C30_Witness ==
    /\ op = "columns"
    /\ model.headings = Some(<<StrXyz>>)
    /\ model.align = CENTER
    /\ Len(model.data) = 2
    /\ model.data[1] = Column(<<Str1, Str22>>, None, None, NoAlign)
    /\ model.data[2] = RawSeq(<<Str1, Str22>>)
    /\ accessed[1].column.heading = None
    /\ accessed[1].column.align = NoAlign
    /\ accessed[2].column.align = CENTER

=============================================================================
